---- MODULE Spec2Model ----
(***************************************************************************)
(* Model of the thorium Nuke plugin collection.                            *)
(*                                                                         *)
(*   Part I   thorium/__init__.py: GlobalInjector and run_gui              *)
(*   Part II  thorium/viewerSync/viewerSync.py: setup_sync,                *)
(*            remove_callbacks and the sync_viewers callback               *)
(*   Part III thorium/utils: Groupmo construction and allNodes             *)
(*   Part IV  thorium/animatedSnap3D/animatedSnap3D.py: animated_snap      *)
(***************************************************************************)
EXTENDS Integers, Sequences, FiniteSets, TLC

VARIABLES
    builtin,      \* sys.modules['__builtin__'].__dict__ : name -> value
    modules,      \* GlobalInjector.__dict__['modules'] : list of tracked names
    attrs,        \* names of the attributes stored on the injector object
    resets,       \* number of reset() calls made so far (bounded)
    calls,        \* calls made by the last run_gui: importer(...) and X.run(...)
    last,         \* the last operation and its inputs
    preBuiltin,   \* builtin as it was before the last operation
    preModules,   \* modules as it was before the last operation
    exists,       \* the Viewer nodes that exist in the script
    level,        \* Viewer -> the node graph level (root or a Group) it lives in
    knobChanged,  \* Viewer -> value of its knobChanged knob
    vs,           \* Viewer -> its viewerSync setting knobs (vs_*), when present
    knob,         \* Viewer -> values of its ordinary knobs
    input,        \* Viewer -> the node connected to its input 0, if any
    pre,          \* the Viewer nodes as they were before the last operation
    graph,        \* the nodes of the script that Groupmos are built into
    preGraph,     \* graph as it was before the last operation
    scene,        \* what animated_snap works on: knobs, CurveTools, tasks, calls
    preScene      \* scene as it was before the last operation

thoriumVars == <<builtin, modules, attrs, resets, calls, preBuiltin, preModules>>
viewerVars == <<exists, level, knobChanged, vs, knob, input, pre>>
groupmoVars == <<graph, preGraph>>
snapVars == <<scene, preScene>>
vars == <<builtin, modules, attrs, resets, calls, last, preBuiltin, preModules,
          exists, level, knobChanged, vs, knob, input, pre,
          graph, preGraph, scene, preScene>>

\* ------------------------------------------------------------------------
\* Part I.a  GlobalInjector
\* ------------------------------------------------------------------------

\* Bounds of the injector model.
MaxInject == 3
MaxResets == 2

Absent == "absent"

\* Names a client may inject through the injector.
InjNames == {"string", "random", "modules"}

\* Submodules of thorium that have a run() entry point.
SubModules == {"animatedSnap3D", "cardToTrack", "iconPanel", "keying", "viewerSync"}

\* All the names of the namespace the model looks at; "len" is a name that
\* python itself binds there.
Names == InjNames \cup SubModules \cup {"len"}

InjValues == {"obj1", "obj2"}

EmptyList == "[]"

\* The __builtin__ namespace of a fresh interpreter.
FreshBuiltin == [n \in Names |-> IF n = "len" THEN "<built-in function len>" ELSE Absent]

\* GlobalInjector.__init__: the instance dictionary gets 'modules' and 'builtin'.
GlobalInjector_init == [modules |-> << >>, attrs |-> {"modules", "builtin"}]

\* A plausible slip: the default object.__setattr__ behaviour is kept, so the
\* value is stored on the instance as well.
GlobalInjector_setattr_stores(b, m, a, name, value) ==
    [builtin |-> [b EXCEPT ![name] = value],
     modules |-> Append(m, name),
     attrs   |-> a \cup {name}]

\* GlobalInjector.__setattr__(name, value) on namespace b, tracked list m and
\* instance attributes a.
GlobalInjector_setattr(b, m, a, name, value) ==
    [builtin |-> [b EXCEPT ![name] = value],
     modules |-> Append(m, name),
     attrs   |-> a]

\* The loop of reset(): for module in self.modules: if module in builtin: del
RECURSIVE DelTracked(_, _)
DelTracked(b, m) ==
    IF m = << >> THEN b
    ELSE DelTracked(IF b[Head(m)] # Absent THEN [b EXCEPT ![Head(m)] = Absent] ELSE b,
                    Tail(m))

\* GlobalInjector.reset(): the loop, then the statement `self.modules = []`,
\* which is an attribute assignment and so goes through __setattr__.
GlobalInjector_reset(b, m, a) ==
    GlobalInjector_setattr(DelTracked(b, m), m, a, "modules", EmptyList)

InitThorium ==
    /\ builtin = FreshBuiltin
    /\ modules = GlobalInjector_init.modules
    /\ attrs = GlobalInjector_init.attrs
    /\ resets = 0
    /\ calls = << >>
    /\ last = [op |-> "init"]
    /\ preBuiltin = FreshBuiltin
    /\ preModules = << >>

\* No Viewer node: the state of the node graph while only thorium/__init__.py
\* is exercised.
NoViewers ==
    /\ exists = {}
    /\ level = << >>
    /\ knobChanged = << >>
    /\ vs = << >>
    /\ knob = << >>
    /\ input = << >>
    /\ pre = << >>

\* No node but Viewers, and no 3D scene: the state of the rest of the script
\* while other parts are exercised.
NoGraph ==
    /\ graph = << >>
    /\ preGraph = << >>

NoScene ==
    /\ scene = << >>
    /\ preScene = << >>

InitInjector == InitThorium /\ NoViewers /\ NoGraph /\ NoScene

\* injector.name = value
SetAttr(name, value) ==
    /\ Len(modules) < MaxInject + resets
    /\ LET r == GlobalInjector_setattr(builtin, modules, attrs, name, value) IN
         /\ builtin' = r.builtin
         /\ modules' = r.modules
         /\ attrs' = r.attrs
    /\ preBuiltin' = builtin
    /\ preModules' = modules
    /\ last' = [op |-> "setattr", name |-> name, value |-> value,
                injected |-> (IF last.op = "init" THEN {} ELSE last.injected) \cup {name},
                external |-> (IF last.op = "init" THEN FALSE ELSE last.external),
                preAttrs |-> attrs]
    /\ UNCHANGED <<resets, calls>>
    /\ UNCHANGED <<viewerVars, groupmoVars, snapVars>>

\* injector.reset()
Reset ==
    /\ resets < MaxResets
    /\ LET r == GlobalInjector_reset(builtin, modules, attrs) IN
         /\ builtin' = r.builtin
         /\ modules' = r.modules
         /\ attrs' = r.attrs
    /\ resets' = resets + 1
    /\ preBuiltin' = builtin
    /\ preModules' = modules
    /\ last' = [op |-> "reset", name |-> "", value |-> "",
                injected |-> (IF last.op = "init" THEN {} ELSE last.injected),
                external |-> (IF last.op = "init" THEN FALSE ELSE last.external),
                preAttrs |-> attrs]
    /\ UNCHANGED calls
    /\ UNCHANGED <<viewerVars, groupmoVars, snapVars>>

\* Someone else removes a name from the namespace (del __builtin__.name).
ExternalDel(name) ==
    /\ builtin[name] # Absent
    /\ name \in InjNames
    /\ builtin' = [builtin EXCEPT ![name] = Absent]
    /\ preBuiltin' = builtin
    /\ preModules' = modules
    /\ last' = [op |-> "del", name |-> name, value |-> "",
                injected |-> (IF last.op = "init" THEN {} ELSE last.injected),
                external |-> TRUE,
                preAttrs |-> attrs]
    /\ UNCHANGED <<modules, attrs, resets, calls>>
    /\ UNCHANGED <<viewerVars, groupmoVars, snapVars>>

NextInjector ==
    \/ \E n \in InjNames, v \in InjValues : SetAttr(n, v)
    \/ Reset
    \/ \E n \in InjNames : ExternalDel(n)

SpecInjector == InitInjector /\ [][NextInjector]_vars

\* C6: assigning injector.n = v binds n to v in the __builtin__ namespace,
\* appends n to the tracked names, leaves every other name of the namespace
\* as it was and stores no attribute on the injector object.
C6_SetAttrFrame ==
    last.op = "setattr" =>
        /\ builtin[last.name] = last.value
        /\ modules = Append(preModules, last.name)
        /\ \A n \in Names \ {last.name} : builtin[n] = preBuiltin[n]
        /\ attrs = last.preAttrs
        /\ last.name \notin {"modules", "builtin"} => last.name \notin attrs

\* An injection that rebinds a name while another injected name is bound.
C6_Witness ==
    /\ last.op = "setattr"
    /\ preBuiltin[last.name] # last.value
    /\ \E n \in InjNames \ {last.name} : builtin[n] \in InjValues

\* C4 (as claimed): after reset() no name injected by attribute assignment
\* is bound in the __builtin__ namespace.
C4_ResetUnbindsInjected ==
    last.op = "reset" => \A n \in last.injected : builtin[n] = Absent

\* C5 (as claimed): if every injected name was absent from the namespace
\* beforehand and nobody else touched it, the namespace after reset() equals
\* the namespace before the first injection.
C5_ResetRoundTrip ==
    ( /\ last.op = "reset"
      /\ ~last.external
      /\ \A n \in last.injected : FreshBuiltin[n] = Absent )
    => builtin = FreshBuiltin

\* ------------------------------------------------------------------------
\* Part I.b  run_gui
\* ------------------------------------------------------------------------

\* The modules run_gui has a branch for.
GuiModules == {"animatedSnap3D", "cardToTrack", "iconPanel"}

MenuNames == {"Thorium", "Comp"}

\* The `modules` argument: None, or a dictionary from module names to bools.
ModulesArgs ==
    {[none |-> TRUE, d |-> << >>]} \cup
    {[none |-> FALSE, d |-> f] : f \in UNION {[S -> BOOLEAN] : S \in SUBSET SubModules}}

\* dict.get(k, default)
DictGet(d, k, default) == IF k \in DOMAIN d THEN d[k] ELSE default

\* _importer(module): the module object of that name.
importer(module) == module

\* A plausible slip: `modules.get(name) or default`, where an explicit False
\* no longer overrides a default of True.
RunGuiEnabled_or(d, name, default) == DictGet(d, name, FALSE) \/ default

\* The condition of each branch of run_gui: modules.get(name, default)
RunGuiEnabled(d, name, default) == DictGet(d, name, default)

\* One branch of run_gui: import through the injector, then NAME.run(args),
\* NAME being looked up in the namespace.
RunGuiBranch(st, d, default, name, runargs) ==
    IF RunGuiEnabled(d, name, default)
    THEN LET r == GlobalInjector_setattr(st.builtin, st.modules, st.attrs,
                                         name, importer(name))
         IN [builtin |-> r.builtin, modules |-> r.modules, attrs |-> r.attrs,
             calls |-> st.calls \o
                 << [fn |-> "_importer", target |-> "thorium", args |-> <<name>>],
                    [fn |-> "run", target |-> r.builtin[name], args |-> runargs] >>]
    ELSE st

\* run_gui(modules, default, menu_name) on namespace b.
run_gui(b, arg, default, menu_name) ==
    LET gi == GlobalInjector_init
        d  == IF arg.none \/ DOMAIN arg.d = {} THEN << >> ELSE arg.d
        s0 == [builtin |-> b, modules |-> gi.modules, attrs |-> gi.attrs, calls |-> << >>]
        s1 == RunGuiBranch(s0, d, default, "animatedSnap3D", << >>)
        s2 == RunGuiBranch(s1, d, default, "cardToTrack", <<"menu", menu_name>>)
        s3 == RunGuiBranch(s2, d, default, "iconPanel", << >>)
    IN s3

\* menu.py calls run_gui once, when the host starts.
RunGui(arg, default, menu_name) ==
    /\ last.op = "init"
    /\ LET r == run_gui(builtin, arg, default, menu_name) IN
         /\ builtin' = r.builtin
         /\ calls' = r.calls
    /\ preBuiltin' = builtin
    /\ preModules' = modules
    /\ last' = [op |-> "run_gui", arg |-> arg, default |-> default,
                menu_name |-> menu_name]
    /\ UNCHANGED <<modules, attrs, resets>>
    /\ UNCHANGED <<viewerVars, groupmoVars, snapVars>>

NextRunGui ==
    \E arg \in ModulesArgs, default \in BOOLEAN, menu_name \in MenuNames :
        RunGui(arg, default, menu_name)

SpecRunGui == InitInjector /\ [][NextRunGui]_vars

\* The calls of the last run_gui that import, respectively run, module m.
ImportsOf(m) == {i \in 1..Len(calls) : calls[i].fn = "_importer" /\ calls[i].args = <<m>>}
RunsOf(m) == {i \in 1..Len(calls) : calls[i].fn = "run" /\ calls[i].target = m}

\* modules.get(name, default) as the caller wrote it (None stands for {}).
Requested(arg, name, default) ==
    IF arg.none THEN default
    ELSE IF name \in DOMAIN arg.d THEN arg.d[name] ELSE default

\* C2: each of animatedSnap3D, cardToTrack, iconPanel is imported and run
\* exactly once iff modules.get(name, default) is true, and neither imported
\* nor run otherwise; cardToTrack.run gets menu=menu_name, the others nothing.
C2_RunGuiSelects ==
    last.op = "run_gui" =>
        \A m \in GuiModules :
            IF Requested(last.arg, m, last.default)
            THEN /\ Cardinality(ImportsOf(m)) = 1
                 /\ Cardinality(RunsOf(m)) = 1
                 /\ \A i \in RunsOf(m) :
                        calls[i].args = IF m = "cardToTrack"
                                        THEN <<"menu", last.menu_name>> ELSE << >>
            ELSE ImportsOf(m) = {} /\ RunsOf(m) = {}

\* A default of True overridden by an explicit False, next to an explicit
\* True and a defaulted module.
C2_Witness ==
    /\ last.op = "run_gui"
    /\ last.default
    /\ ~last.arg.none
    /\ DOMAIN last.arg.d = {"animatedSnap3D", "cardToTrack"}
    /\ ~last.arg.d["animatedSnap3D"]
    /\ last.arg.d["cardToTrack"]
    /\ Len(calls) = 4

\* C3 (as claimed): with default=True and only one module disabled, every
\* other submodule that has a run() is imported and run.
C3_OthersAllRun ==
    ( /\ last.op = "run_gui"
      /\ last.default
      /\ ~last.arg.none
      /\ DOMAIN last.arg.d = {"animatedSnap3D"}
      /\ ~last.arg.d["animatedSnap3D"] )
    => \A m \in SubModules \ {"animatedSnap3D"} : ImportsOf(m) # {} /\ RunsOf(m) # {}

\* ------------------------------------------------------------------------
\* Part II  viewerSync
\* ------------------------------------------------------------------------

\* Bound: the number of Viewer nodes in the script.
NumViewers == 3

Viewers == 1..NumViewers

\* Node graph levels a Viewer can live in: the root, or inside a Group.
Levels == {"root", "Group1"}

\* SYNC_DEFAULTS, cut down to one knob that is off by default, one that is on
\* and the 'inputs' entry.
SYNC_DEFAULTS == [gain |-> FALSE, cliptest |-> TRUE, inputs |-> FALSE]

SyncKnobs == DOMAIN SYNC_DEFAULTS

\* The white-listed entries that are knobs of a Viewer ('inputs' is not).
ValueKnobs == SyncKnobs \ {"inputs"}

KnobValues == {"x", "y"}

\* What input 0 of a Viewer may be connected to.
NoInput == "None"
InputNodes == {"Read1", "Read2"}

\* Values of the knobChanged knob: '', another tool's callback, or
\* 'viewerSync.sync_viewers([names])'.
NoCallback == [kind |-> "empty", viewers |-> << >>]
ForeignCallback == [kind |-> "foreign", viewers |-> << >>]
SyncCallback(names) == [kind |-> "sync", viewers |-> names]

\* A Viewer without vs_ knobs.
NoVs == [has |-> FALSE, val |-> SYNC_DEFAULTS]

\* The node graph as the functions below take it.
Nodes ==
    [ex |-> exists, kc |-> knobChanged, vs |-> vs, knob |-> knob, input |-> input,
     err |-> ""]

\* ---- sequence helpers (python list operations) ----

InSeq(x, s) == \E i \in 1..Len(s) : s[i] = x

Range(s) == {s[i] : i \in 1..Len(s)}

\* list.remove(x) for x in the list: drops the first occurrence.
RemoveFirst(s, x) ==
    LET i == CHOOSE j \in 1..Len(s) : s[j] = x /\ \A k \in 1..(j - 1) : s[k] # x
    IN SubSeq(s, 1, i - 1) \o SubSeq(s, i + 1, Len(s))

RECURSIVE SortedSeq(_)
SortedSeq(S) ==
    IF S = {} THEN << >>
    ELSE LET m == CHOOSE x \in S : \A y \in S : x <= y
         IN <<m>> \o SortedSeq(S \ {m})

RECURSIVE SeqOfSet(_)
SeqOfSet(S) ==
    IF S = {} THEN << >>
    ELSE LET m == CHOOSE x \in S : TRUE IN <<m>> \o SeqOfSet(S \ {m})

\* ---- the host ----

\* node.fullName(): the path of Groups, then the node's own name.
fullName(v) == [path |-> IF level[v] = "root" THEN << >> ELSE <<level[v]>>, name |-> v]

\* nuke.selectedNodes('Viewer') and nuke.allNodes('Viewer'), in creation order.
selectedNodes(sel) == SortedSeq(sel)
allNodes(ex, cur) == SortedSeq({v \in ex : level[v] = cur})

\* [nuke.toNode(node) for node in names if nuke.toNode(node)]
ResolveViewers(ex, names) ==
    LET Alive(nm) == nm.name \in ex
        alive == SelectSeq(names, Alive)
    IN [i \in 1..Len(alive) |-> alive[i].name]

\* ---- private functions ----

\* 'viewerSync' in callback
ContainsViewerSync(cb) == cb.kind = "sync"

\* _extract_viewer_list(viewer): the linked nodes, or ValueError.
ExtractViewerList(n, v) ==
    LET callback == n.kc[v] IN
    IF callback.kind = "empty" THEN [raised |-> FALSE, nodes |-> << >>]
    ELSE IF ~ContainsViewerSync(callback) THEN [raised |-> TRUE, nodes |-> << >>]
    ELSE [raised |-> FALSE, nodes |-> ResolveViewers(n.ex, callback.viewers)]

\* _remove_knobs(viewer)
RemoveKnobs(n, v) == [n EXCEPT !.vs[v] = NoVs]

\* _add_sync_knobs(viewer): reset the settings of a Viewer that has the tab,
\* or add the knobs with their default values.
AddSyncKnobs(n, v) ==
    IF n.vs[v].has
    THEN [n EXCEPT !.vs[v].val = [k \in SyncKnobs |-> SYNC_DEFAULTS[k]]]
    ELSE [n EXCEPT !.vs[v] = [has |-> TRUE, val |-> SYNC_DEFAULTS]]

\* _set_callback(node, viewers)
SetCallback(n, node, viewers) ==
    LET others == IF InSeq(node, viewers) THEN RemoveFirst(viewers, node) ELSE viewers
        viewer_names == [i \in 1..Len(others) |-> fullName(others[i])]
    IN [n EXCEPT !.kc[node] = SyncCallback(viewer_names)]

\* ---- remove_callbacks ----

\* The else branch of remove_callbacks: the nodes linked to the selected ones.
RECURSIVE ExtraViewers(_, _)
ExtraViewers(n, viewers) ==
    IF viewers = << >> THEN << >>
    ELSE LET r == ExtractViewerList(n, Head(viewers))
         IN (IF r.raised THEN << >> ELSE r.nodes) \o ExtraViewers(n, Tail(viewers))

\* A plausible slip: the linked viewers are forgotten.
RemoveTargets_selected(n, sel, cur) ==
    IF selectedNodes(sel) = << >> THEN allNodes(n.ex, cur) ELSE selectedNodes(sel)

\* The list of viewers remove_callbacks works on.
RemoveTargets(n, sel, cur) ==
    LET viewers == selectedNodes(sel) IN
    IF viewers = << >> THEN allNodes(n.ex, cur)
    ELSE viewers \o ExtraViewers(n, viewers)

\* A plausible slip: any callback is cleared.
RemoveClears_any(cb) == cb.kind # "empty"

\* The test remove_callbacks makes before it clears knobChanged.
RemoveClears(cb) == ContainsViewerSync(cb)

RECURSIVE RemoveLoop(_, _)
RemoveLoop(n, viewers) ==
    IF viewers = << >> THEN n
    ELSE LET viewer == Head(viewers)
             n1 == IF RemoveClears(n.kc[viewer])
                   THEN [n EXCEPT !.kc[viewer] = NoCallback] ELSE n
         IN RemoveLoop(RemoveKnobs(n1, viewer), Tail(viewers))

remove_callbacks(n, sel, cur) == RemoveLoop(n, RemoveTargets(n, sel, cur))

\* ---- setup_sync ----

\* '.'.join(viewer.fullName().split('.')[:-1]), 'root' when that is empty.
LevelKey(v) ==
    LET group == fullName(v).path IN IF group = << >> THEN "root" ELSE group[1]

\* viewer_levels after the loop that deletes the levels with nothing to sync.
ViewerLevels(n, sel, cur) ==
    LET viewers == selectedNodes(sel)
        keys == IF viewers # << >> THEN {LevelKey(v) : v \in sel} ELSE {"group"}
        all == [k \in keys |->
                   IF viewers # << >>
                   THEN SortedSeq({v \in sel : LevelKey(v) = k})
                   ELSE allNodes(n.ex, cur)]
    IN [k \in {k \in keys : Len(all[k]) > 1} |-> all[k]]

\* viewer_levels.values(), flattened.
RECURSIVE Flatten(_, _)
Flatten(keys, vl) ==
    IF keys = << >> THEN << >> ELSE vl[Head(keys)] \o Flatten(Tail(keys), vl)

\* The loop that fills bad_viewers and remove_viewers.
RECURSIVE ScanCallbacks(_, _)
ScanCallbacks(n, viewers) ==
    IF viewers = << >> THEN [bad |-> << >>, remove |-> << >>]
    ELSE LET r == ExtractViewerList(n, Head(viewers))
             rest == ScanCallbacks(n, Tail(viewers))
         IN IF r.raised
            THEN [rest EXCEPT !.bad = <<Head(viewers)>> \o rest.bad]
            ELSE [rest EXCEPT !.remove = r.nodes \o rest.remove]

\* for viewers in viewer_levels.values(): if rm_viewer in viewers:
\*     remove_viewers.remove(rm_viewer)          (ValueError when not in it)
RECURSIVE LevelsPass(_, _, _, _)
LevelsPass(keys, vl, rm, r) ==
    IF keys = << >> \/ r.raised THEN r
    ELSE LevelsPass(Tail(keys), vl, rm,
            IF InSeq(rm, vl[Head(keys)])
            THEN IF InSeq(rm, r.remove)
                 THEN [r EXCEPT !.remove = RemoveFirst(r.remove, rm)]
                 ELSE [r EXCEPT !.raised = TRUE]
            ELSE r)

\* for rm_viewer in list(remove_viewers): the pass over the levels, then the
\* guarded removal of a viewer that has a foreign callback.
RECURSIVE FilterRemoved(_, _, _, _)
FilterRemoved(copy, vl, bad, r) ==
    IF copy = << >> \/ r.raised THEN r
    ELSE LET rm == Head(copy)
             r1 == LevelsPass(SeqOfSet(DOMAIN vl), vl, rm, r)
             r2 == IF ~r1.raised /\ InSeq(rm, bad) /\ InSeq(rm, r1.remove)
                   THEN [r1 EXCEPT !.remove = RemoveFirst(r1.remove, rm)]
                   ELSE r1
         IN FilterRemoved(Tail(copy), vl, bad, r2)

\* for viewer in set(remove_viewers): clear knobChanged, _remove_knobs
RECURSIVE Deactivate(_, _)
Deactivate(n, viewers) ==
    IF viewers = << >> THEN n
    ELSE Deactivate(RemoveKnobs([n EXCEPT !.kc[Head(viewers)] = NoCallback],
                                Head(viewers)),
                    Tail(viewers))

\* A plausible slip: the viewers that have a foreign callback stay in the group.
WithoutBad_keeps(viewers, bad) == viewers

\* for viewer in bad_viewers: if viewer in viewers: viewers.remove(viewer)
RECURSIVE WithoutBad(_, _)
WithoutBad(viewers, bad) ==
    IF bad = << >> THEN viewers
    ELSE WithoutBad(IF InSeq(Head(bad), viewers)
                    THEN RemoveFirst(viewers, Head(bad)) ELSE viewers,
                    Tail(bad))

\* for viewer in viewers: _add_sync_knobs(viewer); _set_callback(viewer, viewers)
RECURSIVE LinkViewers(_, _, _)
LinkViewers(n, todo, viewers) ==
    IF todo = << >> THEN n
    ELSE LinkViewers(SetCallback(AddSyncKnobs(n, Head(todo)), Head(todo), viewers),
                     Tail(todo), viewers)

RECURSIVE LinkLevels(_, _, _, _)
LinkLevels(n, keys, vl, bad) ==
    IF keys = << >> THEN n
    ELSE LET viewers == WithoutBad(vl[Head(keys)], bad)
         IN LinkLevels(LinkViewers(n, viewers, viewers), Tail(keys), vl, bad)

\* setup_sync() with `sel` selected and `cur` the current level.  The result
\* carries err = "ValueError" when the exception leaves the function, which
\* happens before any node is touched.
setup_sync(n, sel, cur) ==
    LET vl == ViewerLevels(n, sel, cur)
        keys == SeqOfSet(DOMAIN vl)
        scan == ScanCallbacks(n, Flatten(keys, vl))
        f == FilterRemoved(scan.remove, vl, scan.bad,
                           [raised |-> FALSE, remove |-> scan.remove])
    IN IF f.raised THEN [n EXCEPT !.err = "ValueError"]
       ELSE LinkLevels(Deactivate(n, SeqOfSet(Range(f.remove))), keys, vl, scan.bad)

\* ---- the node graph as a state machine ----

\* Where the Viewers of the script live: the first j at the root, the others
\* in a Group.  The two levels are treated alike by every function, so the
\* assignments with the larger part at the root stand for their mirror images.
LevelAssignments ==
    {[v \in Viewers |-> IF v <= j THEN "root" ELSE "Group1"] :
        j \in {i \in 0..NumViewers : 2 * i >= NumViewers}}

InitViewers ==
    /\ exists = Viewers
    /\ level \in LevelAssignments
    /\ knobChanged = [v \in Viewers |-> NoCallback]
    /\ vs = [v \in Viewers |-> NoVs]
    /\ knob = [v \in Viewers |-> [k \in ValueKnobs |-> "x"]]
    /\ input = [v \in Viewers |-> NoInput]
    /\ pre = [ex |-> Viewers,
              kc |-> [v \in Viewers |-> NoCallback],
              vs |-> [v \in Viewers |-> NoVs],
              knob |-> [v \in Viewers |-> [k \in ValueKnobs |-> "x"]],
              input |-> [v \in Viewers |-> NoInput],
              err |-> ""]

InitViewerSync == InitThorium /\ InitViewers /\ NoGraph /\ NoScene

\* The user runs 'Create Viewer Sync'.
SetupSync(sel, cur) ==
    /\ sel # {} => cur = "root"
    /\ \E r \in {setup_sync(Nodes, sel, cur)} :
         /\ knobChanged' = r.kc
         /\ vs' = r.vs
         /\ last' = [op |-> "setup_sync", sel |-> sel, cur |-> cur, err |-> r.err]
    /\ pre' = Nodes
    /\ UNCHANGED <<exists, level, knob, input>>
    /\ UNCHANGED <<thoriumVars, groupmoVars, snapVars>>

\* The user runs 'Remove Viewer Sync'.
RemoveCallbacks(sel, cur) ==
    /\ sel # {} => cur = "root"
    /\ \E r \in {remove_callbacks(Nodes, sel, cur)} :
         /\ knobChanged' = r.kc
         /\ vs' = r.vs
         /\ last' = [op |-> "remove_callbacks", sel |-> sel, cur |-> cur, err |-> r.err]
    /\ pre' = Nodes
    /\ UNCHANGED <<exists, level, knob, input>>
    /\ UNCHANGED <<thoriumVars, groupmoVars, snapVars>>

\* Another tool installs its own knobChanged callback on a Viewer.
ForeignTool(v) ==
    /\ v \in exists
    /\ knobChanged[v].kind # "foreign"
    /\ knobChanged' = [knobChanged EXCEPT ![v] = ForeignCallback]
    /\ last' = [op |-> "foreign", sel |-> {v}, cur |-> "root", err |-> ""]
    /\ pre' = Nodes
    /\ UNCHANGED <<exists, level, vs, knob, input>>
    /\ UNCHANGED <<thoriumVars, groupmoVars, snapVars>>

\* The user deletes a Viewer.
DeleteViewer(v) ==
    /\ v \in exists
    /\ exists' = exists \ {v}
    /\ knobChanged' = [knobChanged EXCEPT ![v] = NoCallback]
    /\ vs' = [vs EXCEPT ![v] = NoVs]
    /\ last' = [op |-> "delete", sel |-> {v}, cur |-> "root", err |-> ""]
    /\ pre' = Nodes
    /\ UNCHANGED <<level, knob, input>>
    /\ UNCHANGED <<thoriumVars, groupmoVars, snapVars>>

NextViewerSync ==
    \/ \E sel \in SUBSET exists, cur \in Levels : SetupSync(sel, cur)
    \/ \E sel \in SUBSET exists, cur \in Levels : RemoveCallbacks(sel, cur)
    \/ \E v \in Viewers : ForeignTool(v)
    \/ \E v \in Viewers : DeleteViewer(v)

SpecViewerSync == InitViewerSync /\ [][NextViewerSync]_vars

\* ---- what the claims speak of ----

\* The existing viewers that the callback of v named before the last call.
PreLinked(v) ==
    IF pre.kc[v].kind = "sync"
    THEN {nm.name : nm \in Range(pre.kc[v].viewers)} \cap pre.ex
    ELSE {}

\* The viewers the last call was made for: the selected ones, or all the
\* viewers of the current level when none was selected.
Participants ==
    IF last.sel # {} THEN last.sel ELSE {v \in pre.ex : level[v] = last.cur}

\* The viewers remove_callbacks is said to visit.
Visited ==
    IF last.sel # {} THEN last.sel \cup UNION {PreLinked(v) : v \in last.sel}
    ELSE {v \in pre.ex : level[v] = last.cur}

\* C7: after remove_callbacks every selected viewer and every existing viewer
\* named in a selected viewer's viewerSync callback (every viewer of the
\* current level when none is selected) has an empty knobChanged if it held
\* a viewerSync callback, and no vs_ knob.
C7_RemoveUnlinksGroup ==
    last.op = "remove_callbacks" =>
        \A v \in Visited :
            /\ pre.kc[v].kind = "sync" => knobChanged[v] = NoCallback
            /\ ~vs[v].has

\* remove_callbacks reached a linked viewer that was not selected.
C7_Witness ==
    /\ last.op = "remove_callbacks"
    /\ \E v \in last.sel : \E w \in PreLinked(v) \ last.sel :
          /\ pre.kc[w].kind = "sync"
          /\ pre.vs[w].has
          /\ knobChanged[w] = NoCallback
          /\ ~vs[w].has

\* C8: remove_callbacks leaves every knobChanged value that is not a
\* viewerSync callback as it was, on every viewer it visits, and a selected
\* viewer with a foreign callback does not make it fail.
C8_RemoveKeepsForeign ==
    last.op = "remove_callbacks" =>
        /\ last.err = ""
        /\ \A v \in Visited :
              pre.kc[v].kind # "sync" => knobChanged[v] = pre.kc[v]

\* remove_callbacks ran on a selection holding a foreign callback and a
\* viewerSync callback.
C8_Witness ==
    /\ last.op = "remove_callbacks"
    /\ \E v \in last.sel : pre.kc[v].kind = "foreign" /\ knobChanged[v] = ForeignCallback
    /\ \E v \in last.sel : pre.kc[v].kind = "sync" /\ knobChanged[v] = NoCallback

\* C9: setup_sync leaves alone every participating viewer that has a foreign
\* callback: its knobChanged and its vs_ knobs are as before, and no callback
\* this call wrote names it.
C9_SetupKeepsForeign ==
    last.op = "setup_sync" =>
        \A v \in Participants :
            pre.kc[v].kind = "foreign" =>
                /\ knobChanged[v] = pre.kc[v]
                /\ vs[v] = pre.vs[v]
                /\ \A w \in exists :
                      knobChanged[w] # pre.kc[w] =>
                          fullName(v) \notin Range(knobChanged[w].viewers)

\* setup_sync linked two viewers of a selection that also held a viewer with
\* a foreign callback.
C9_Witness ==
    /\ last.op = "setup_sync"
    /\ last.err = ""
    /\ \E v \in last.sel : \E w \in last.sel \ {v} : \E u \in last.sel \ {v, w} :
          /\ pre.kc[v].kind = "foreign"
          /\ level[v] = level[w]
          /\ pre.kc[w].kind = "sync"
          /\ fullName(v) \in Range(pre.kc[w].viewers)
          /\ knobChanged[w] = SyncCallback(<<fullName(u)>>)

\* C10 (as claimed): setup_sync deactivates the previous group of each
\* participating viewer: every existing viewer named in a participant's
\* viewerSync callback that is not a participant ends the call with an empty
\* knobChanged and no vs_ knob.
C10_SetupDeactivatesOldGroup ==
    last.op = "setup_sync" =>
        \A p \in Participants : \A w \in PreLinked(p) \ Participants :
            knobChanged[w] = NoCallback /\ ~vs[w].has

\* ---- sync_viewers ----

\* Knob names: an ordinary knob k, or the setting knob 'vs_' + k.  The host
\* also fires the callback with the pseudo knobs 'inputChange' and
\* 'knobChanged'.
Knob(k) == [vs |-> FALSE, name |-> k]
VsKnob(k) == [vs |-> TRUE, name |-> k]

\* knob in node.knobs()
HasKnob(n, v, kn) ==
    IF kn.vs THEN n.vs[v].has /\ kn.name \in SyncKnobs ELSE kn.name \in ValueKnobs

\* node[knob].value()
KnobValue(n, v, kn) == IF kn.vs THEN n.vs[v].val[kn.name] ELSE n.knob[v][kn.name]

\* node[knob].setValue(x)
SetKnobValue(n, v, kn, x) ==
    IF kn.vs THEN [n EXCEPT !.vs[v].val[kn.name] = x]
    ELSE [n EXCEPT !.knob[v][kn.name] = x]

\* A plausible slip: the loop stops after its first target.
RECURSIVE SyncKnob_first(_, _, _, _)
SyncKnob_first(n, source, targets, kn) ==
    IF targets = << >> THEN n
    ELSE IF HasKnob(n, Head(targets), kn) /\ HasKnob(n, source, kn)
         THEN SetKnobValue(n, Head(targets), kn, KnobValue(n, source, kn))
         ELSE n

\* _sync_knob(source, targets, knob): a knob missing on either side raises
\* the NameError that the loop swallows.
RECURSIVE SyncKnob(_, _, _, _)
SyncKnob(n, source, targets, kn) ==
    IF targets = << >> THEN n
    ELSE SyncKnob(IF HasKnob(n, Head(targets), kn) /\ HasKnob(n, source, kn)
                  THEN SetKnobValue(n, Head(targets), kn, KnobValue(n, source, kn))
                  ELSE n,
                  source, Tail(targets), kn)

RECURSIVE SyncKnobList(_, _, _, _)
SyncKnobList(n, source, targets, knob_list) ==
    IF knob_list = << >> THEN n
    ELSE SyncKnobList(SyncKnob(n, source, targets, Head(knob_list)),
                      source, targets, Tail(knob_list))

\* for viewer in viewer_nodes: for i in xrange(caller.inputs()):
\*     viewer.setInput(i, caller.input(i))
RECURSIVE SyncInputs(_, _, _)
SyncInputs(n, caller, targets) ==
    IF targets = << >> \/ n.input[caller] = NoInput THEN n
    ELSE SyncInputs([n EXCEPT !.input[Head(targets)] = n.input[caller]],
                    caller, Tail(targets))

\* A plausible slip: 'gain' is let through with the pseudo knobs, so its
\* vs_ setting is never consulted.
PseudoKnobs_gain == {"inputChange", "knobChanged", "gain"}

PseudoKnobs == {"inputChange", "knobChanged"}

\* sync_viewers(viewers), called by the host with thisNode() = caller and
\* thisKnob().name() = caller_knob.  Reading a vs_ knob the caller does not
\* have raises NameError out of the function.
sync_viewers(n, caller, caller_knob, viewers) ==
    LET pseudo == ~caller_knob.vs /\ caller_knob.name \in PseudoKnobs
        listed == caller_knob.name \in SyncKnobs
    IN
    IF ~pseudo /\ ~listed THEN n
    ELSE IF ~pseudo /\ ~caller_knob.vs /\ ~n.vs[caller].has
         THEN [n EXCEPT !.err = "NameError"]
    ELSE IF ~pseudo /\ ~caller_knob.vs /\ ~n.vs[caller].val[caller_knob.name] THEN n
    ELSE
      LET viewer_nodes == ResolveViewers(n.ex, viewers)
          n1 == IF caller_knob.vs
                THEN SyncKnob(n, caller, viewer_nodes, caller_knob) ELSE n
          knob1 == IF caller_knob.vs /\ KnobValue(n1, caller, caller_knob)
                   THEN Knob(caller_knob.name) ELSE caller_knob
      IN
      IF ~knob1.vs /\ knob1.name \in {"inputChange", "inputs"}
      THEN IF ~n1.vs[caller].has THEN [n1 EXCEPT !.err = "NameError"]
           ELSE IF n1.vs[caller].val["inputs"]
                THEN SyncInputs(n1, caller, viewer_nodes) ELSE n1
      ELSE LET knob_list ==
                   IF knob1 = Knob("knobChanged")
                   THEN [i \in 1..Len(SeqOfSet({k \in SyncKnobs : SYNC_DEFAULTS[k]})) |->
                            Knob(SeqOfSet({k \in SyncKnobs : SYNC_DEFAULTS[k]})[i])]
                   ELSE <<knob1>>
           IN SyncKnobList(n1, caller, viewer_nodes, knob_list)

\* The host runs the knobChanged script of the node whose knob changed, when
\* that script is the viewerSync callback.
FireKnobChanged(n, caller, caller_knob) ==
    IF ContainsViewerSync(n.kc[caller])
    THEN sync_viewers(n, caller, caller_knob, n.kc[caller].viewers)
    ELSE n

\* The user sets knob kn of Viewer c to x; the host then runs knobChanged.
KnobEdit(c, kn, x) ==
    /\ c \in exists
    /\ HasKnob(Nodes, c, kn)
    /\ KnobValue(Nodes, c, kn) # x
    /\ \E r \in {FireKnobChanged(SetKnobValue(Nodes, c, kn, x), c, kn)} :
         /\ knob' = r.knob
         /\ vs' = r.vs
         /\ input' = r.input
         /\ last' = [op |-> "knob", sel |-> {c}, cur |-> "root", err |-> r.err,
                     knob |-> kn,
                     fired |-> ContainsViewerSync(knobChanged[c])]
    /\ pre' = Nodes
    /\ UNCHANGED <<exists, level, knobChanged>>
    /\ UNCHANGED <<thoriumVars, groupmoVars, snapVars>>

\* The knobs the user edits in this model of a session.
EditedKnobs == {Knob(k) : k \in ValueKnobs} \cup {VsKnob(k) : k \in ValueKnobs}

\* The user works on one white-listed knob at a time: a knob and its setting
\* are edited only while every other white-listed knob and setting has the
\* value it started with.  (sync_viewers called for knob k reads and writes
\* nothing but k and vs_k.)
OthersAtRest(kn) ==
    \A v \in Viewers : \A k \in ValueKnobs \ {kn.name} :
        knob[v][k] = "x" /\ vs[v].val[k] = SYNC_DEFAULTS[k]

InitSyncViewers ==
    /\ InitThorium
    /\ InitViewers
    /\ NoGraph
    /\ NoScene
    /\ level = [v \in Viewers |-> "root"]

NextSyncViewers ==
    \/ \E sel \in SUBSET exists : SetupSync(sel, "root")
    \/ \E c \in Viewers, kn \in EditedKnobs :
          \E x \in (IF kn.vs THEN BOOLEAN ELSE KnobValues) :
              OthersAtRest(kn) /\ KnobEdit(c, kn, x)
    \/ \E v \in Viewers : DeleteViewer(v)

SpecSyncViewers == InitSyncViewers /\ [][NextSyncViewers]_vars

\* Viewers c and v are in one sync group: the viewerSync callback that
\* setup_sync wrote on one of them names the other.
Linked(c, v) ==
    \/ ContainsViewerSync(knobChanged[c]) /\ fullName(v) \in Range(knobChanged[c].viewers)
    \/ ContainsViewerSync(knobChanged[v]) /\ fullName(c) \in Range(knobChanged[v].viewers)

\* C1: when a white-listed knob k other than 'inputs' changes on a viewer of
\* a linked group whose vs_k setting is on, the sync_viewers callback leaves
\* every other existing viewer of the group with the changed viewer's value
\* of k.
C1_SyncPropagates ==
    ( /\ last.op = "knob"
      /\ last.fired
      /\ ~last.knob.vs
      /\ last.knob.name \in ValueKnobs )
    => \A c \in last.sel :
          (pre.vs[c].has /\ pre.vs[c].val[last.knob.name]) =>
              \A v \in exists \ {c} :
                  Linked(c, v) => knob[v][last.knob.name] = knob[c][last.knob.name]

\* 'gain', whose setting is off by default, was changed on a viewer of a
\* group of three and reached two viewers that held another value.
C1_Witness ==
    /\ last.op = "knob"
    /\ last.fired
    /\ last.knob = Knob("gain")
    /\ \E c \in last.sel : \E v \in exists \ {c} : \E w \in exists \ {c, v} :
          /\ pre.vs[c].val["gain"]
          /\ Linked(c, v) /\ Linked(c, w)
          /\ pre.knob[v]["gain"] # knob[c]["gain"]
          /\ pre.knob[w]["gain"] # knob[c]["gain"]
          /\ knob[v]["gain"] = knob[c]["gain"]
          /\ knob[w]["gain"] = knob[c]["gain"]

\* ---- sync_viewers: the knobs it is not concerned with ----

\* A knob of a Viewer that is not on the white list; the model does not keep
\* its value.
OtherKnob == Knob("label")

\* The user changes OtherKnob on Viewer c; the host then runs knobChanged.
OtherKnobEdit(c) ==
    /\ c \in exists
    /\ \E r \in {FireKnobChanged(Nodes, c, OtherKnob)} :
         /\ knob' = r.knob
         /\ vs' = r.vs
         /\ input' = r.input
         /\ last' = [op |-> "knob", sel |-> {c}, cur |-> "root", err |-> r.err,
                     knob |-> OtherKnob,
                     fired |-> ContainsViewerSync(knobChanged[c])]
    /\ pre' = Nodes
    /\ UNCHANGED <<exists, level, knobChanged>>
    /\ UNCHANGED <<thoriumVars, groupmoVars, snapVars>>

\* The user connects input 0 of Viewer c to x, or disconnects it; the host
\* then runs knobChanged with the pseudo knob 'inputChange'.
ConnectInput(c, x) ==
    /\ c \in exists
    /\ input[c] # x
    /\ \E r \in {FireKnobChanged([Nodes EXCEPT !.input[c] = x], c,
                                 Knob("inputChange"))} :
         /\ knob' = r.knob
         /\ vs' = r.vs
         /\ input' = r.input
         /\ last' = [op |-> "knob", sel |-> {c}, cur |-> "root", err |-> r.err,
                     knob |-> Knob("inputChange"),
                     fired |-> ContainsViewerSync(knobChanged[c])]
    /\ pre' = Nodes
    /\ UNCHANGED <<exists, level, knobChanged>>
    /\ UNCHANGED <<thoriumVars, groupmoVars, snapVars>>

\* A session in which the groups are set up, then inputs are connected and
\* 'gain' (off by default), its setting and a knob off the white list are
\* edited.
NoEdits ==
    \A v \in Viewers : input[v] = NoInput /\ knob[v]["gain"] = "x"

NextSyncReturn ==
    \/ \E sel \in SUBSET exists : NoEdits /\ SetupSync(sel, "root")
    \/ \E c \in Viewers, x \in KnobValues : KnobEdit(c, Knob("gain"), x)
    \/ \E c \in Viewers, b \in BOOLEAN : KnobEdit(c, VsKnob("gain"), b)
    \/ \E c \in Viewers : OtherKnobEdit(c)
    \/ \E c \in Viewers, x \in {"Read1", NoInput} : ConnectInput(c, x)

SpecSyncReturn == InitSyncViewers /\ [][NextSyncReturn]_vars

\* C11: when the callback runs for a knob that is neither white-listed, nor a
\* vs_ setting, nor 'inputChange' or 'knobChanged', or for a white-listed
\* knob whose vs_ setting on the calling viewer is off, it changes no knob
\* value, no setting and no input connection of any viewer: the graph is as
\* the user's own edit left it.
C11_SyncReturnsEarly ==
    (last.op = "knob" /\ last.fired) =>
        \A c \in last.sel :
            ( /\ ~last.knob.vs
              /\ \/ last.knob.name \notin SyncKnobs \cup {"inputChange", "knobChanged"}
                 \/ /\ last.knob.name \in SyncKnobs
                    /\ pre.vs[c].has
                    /\ ~pre.vs[c].val[last.knob.name] )
            => /\ input = pre.input
               /\ vs = pre.vs
               /\ \A v \in Viewers : \A k \in ValueKnobs :
                      (v # c \/ Knob(k) # last.knob) => knob[v][k] = pre.knob[v][k]

\* A knob off the white list was changed on a viewer whose vs_gain is off,
\* while a linked viewer held another gain (left by an edit of 'gain' that
\* was not passed on) and another input.
C11_Witness ==
    /\ last.op = "knob"
    /\ last.fired
    /\ last.knob = OtherKnob
    /\ \E c \in last.sel : \E v \in exists \ {c} :
          /\ vs[c].has /\ ~vs[c].val["gain"]
          /\ Linked(c, v)
          /\ knob[v]["gain"] # knob[c]["gain"]
          /\ input[c] # NoInput
          /\ input[v] # input[c]

\* ------------------------------------------------------------------------
\* Part III  thorium/utils: Groupmo and allNodes
\* ------------------------------------------------------------------------

\* Bound: the number of nodes at the root of the script.
MaxNodes == 3

\* Groupmo and its subclass SpillSuppress, with the nodes their setup()
\* builds inside the Group (cut down to the Input, one inner node and the
\* Output).
GroupmoClasses == {"Groupmo", "SpillSuppress"}

setup(cls) ==
    CASE cls = "Groupmo" -> << >>
      [] cls = "SpillSuppress" -> <<"Input", "Blur", "Output">>

\* Keyword arguments of a Groupmo call: 'name', 'help' and 'xpos'/'ypos' are
\* passed on to the Group; 'padding' is popped.  None is 0 for padding.
NoPos == [given |-> FALSE, x |-> 0, y |-> 0]
GivenPos == [given |-> TRUE, x |-> 200, y |-> 200]
KwargsSet ==
    {[name |-> Absent, help |-> Absent, pos |-> NoPos, padding |-> 0],
     [name |-> "MyGroup", help |-> "my help", pos |-> NoPos, padding |-> 20],
     [name |-> Absent, help |-> Absent, pos |-> GivenPos, padding |-> 0]}

\* ---- the host ----

\* nuke.selectedNodes(): the selected nodes of the root level.
SelectedSet(g) == {i \in 1..Len(g) : g[i].selected}

\* node.maxInputs() and node.maxOutputs() of a Group: its Input nodes, and
\* whether it has an Output node.
maxInputs(nd) == Cardinality({j \in 1..Len(nd.inner) : nd.inner[j] = "Input"})
maxOutputs(nd) == IF InSeq("Output", nd.inner) THEN 1 ELSE 0

\* node.screenWidth() and node.screenHeight()
screenWidth(nd) == IF nd.Class = "Dot" THEN 12 ELSE 80
screenHeight(nd) == IF nd.Class = "Dot" THEN 12 ELSE 18

\* nuke.nodes.Group(*args, **kwargs): a Group at the root, not selected and
\* not connected, with the knobs the keyword arguments set.
nuke_nodes_Group(kwargs) ==
    [Class |-> "Group",
     name |-> IF kwargs.name # Absent THEN kwargs.name ELSE "Group",
     groupmo_class |-> Absent,
     help |-> kwargs.help,
     selected |-> FALSE,
     input |-> 0,
     xpos |-> IF kwargs.pos.given THEN kwargs.pos.x ELSE 0,
     ypos |-> IF kwargs.pos.given THEN kwargs.pos.y ELSE 0,
     inner |-> << >>]

\* The references nuke.allNodes walks: <<i>> is node i of the root, <<i, j>>
\* the j-th node inside Group i.
RECURSIVE InnerRefs(_, _)
InnerRefs(g, i) ==
    IF i > Len(g) THEN << >>
    ELSE [j \in 1..Len(g[i].inner) |-> <<i, j>>] \o InnerRefs(g, i + 1)

NodeRefs(g, recurseGroups) ==
    [i \in 1..Len(g) |-> <<i>>] \o (IF recurseGroups THEN InnerRefs(g, 1) ELSE << >>)

\* node.Class()
ClassOf(g, ref) == IF Len(ref) = 1 THEN g[ref[1]].Class ELSE g[ref[1]].inner[ref[2]]

\* nuke.allNodes(filter, group=nuke.root(), recurseGroups): the host filters
\* by node class.
nuke_allNodes(g, filter, recurseGroups) ==
    LET Keep(ref) == filter = Absent \/ ClassOf(g, ref) = filter
    IN SelectSeq(NodeRefs(g, recurseGroups), Keep)

\* ---- utils/nodes.py ----

\* allNodes(filter, group=nuke.root(), recurseGroups)
utils_allNodes(g, filter, recurseGroups) ==
    IF filter # Absent /\ recurseGroups
    THEN LET all_nodes == nuke_allNodes(g, Absent, TRUE)
             Match(ref) == ClassOf(g, ref) = filter
         IN SelectSeq(all_nodes, Match)
    ELSE nuke_allNodes(g, filter, recurseGroups)

node_height(nd) ==
    LET height == screenHeight(nd)
    IN IF height = 0 THEN (IF nd.Class # "Dot" THEN 18 ELSE 12) ELSE height

node_width(nd) ==
    LET width == screenWidth(nd)
    IN IF width = 0 THEN (IF nd.Class # "Dot" THEN 80 ELSE 12) ELSE width

center_x(target, source) ==
    source.xpos - ((node_width(target) - node_width(source)) \div 2)

center_y(target, source) ==
    source.ypos - ((node_height(target) - node_height(source)) \div 2)

space_x(source, padding) == node_width(source) + source.xpos + padding

space_y(source, padding) == node_height(source) + source.ypos + padding

\* center_below(target, source, padding) on nodes t and s of g
center_below(g, t, s, padding) ==
    [g EXCEPT ![t].xpos = center_x(g[t], g[s]),
              ![t].ypos = space_y(g[s], padding)]

\* connect_inline(target, source) on nodes t and s of g
connect_inline(g, t, s) ==
    LET dependents == {i \in 1..Len(g) : g[i].input = s}
        g1 == [g EXCEPT ![t].input = s]
    IN IF maxOutputs(g1[t]) # 0
       THEN [i \in 1..Len(g1) |->
                IF i \in dependents /\ g1[i].input = s
                THEN [g1[i] EXCEPT !.input = t] ELSE g1[i]]
       ELSE g1

\* ---- utils/groupmo.py ----

\* A plausible slip: only the node nuke.selectedNode() returned is de-selected.
Deselect_single(g, selected) ==
    IF selected # 0 THEN [g EXCEPT ![selected].selected = FALSE] ELSE g

\* if selected: for node in nuke.selectedNodes(): node['selected'].setValue(False)
Deselect(g, selected) ==
    IF selected # 0
    THEN [i \in 1..Len(g) |->
             IF i \in SelectedSet(g) THEN [g[i] EXCEPT !.selected = FALSE] ELSE g[i]]
    ELSE g

\* Groupmo.__new__(cls, **kwargs) in script g, where nuke.selectedNode()
\* returned node `selected`, or raised ValueError (selected = 0, for None).
Groupmo_new(g, cls, kwargs, selected) ==
    LET padding == kwargs.padding
        kw == IF kwargs.help = Absent THEN [kwargs EXCEPT !.help = "cls.help"]
              ELSE kwargs
        t == Len(g) + 1
        created == Append(g, nuke_nodes_Group(kw))
        knobbed == [created EXCEPT ![t].groupmo_class = cls]
        named == IF kw.name = Absent THEN [knobbed EXCEPT ![t].name = cls]
                 ELSE knobbed
        built == [named EXCEPT ![t].inner = setup(cls)]
        placed ==
            IF selected # 0 /\ maxInputs(built[t]) # 0
            THEN connect_inline(
                     IF ~kw.pos.given
                     THEN center_below(built, t, selected,
                                       IF padding # 0 THEN padding ELSE 6)
                     ELSE built,
                     t, selected)
            ELSE IF selected # 0 /\ ~kw.pos.given
            THEN [built EXCEPT
                     ![t].xpos = space_x(built[selected],
                                         IF padding # 0 THEN padding ELSE 80),
                     ![t].ypos = center_y(built[t], built[selected])]
            ELSE built
        deselected == Deselect(placed, selected)
    IN [deselected EXCEPT ![t].selected = TRUE]

\* ---- the script as a state machine ----

\* A Blur of the script the session starts with: Blur i reads Blur i - 1 and
\* sits below it.
Blur(i) ==
    [Class |-> "Blur", name |-> "Blur", groupmo_class |-> Absent, help |-> Absent,
     selected |-> FALSE, input |-> i - 1, xpos |-> 0, ypos |-> 24 * (i - 1),
     inner |-> << >>]

\* The script starts as a chain of Blur nodes, none of them selected.
InitGroupmo ==
    /\ InitThorium
    /\ NoViewers
    /\ NoScene
    /\ \E k \in 1..(MaxNodes - 1) : graph = [i \in 1..k |-> Blur(i)]
    /\ preGraph = << >>

\* What nuke.selectedNode() may return: any one of the selected nodes, and 0
\* when it raises ValueError because nothing is selected.
SelectedNodeChoices(g) == IF SelectedSet(g) = {} THEN {0} ELSE SelectedSet(g)

\* A Groupmo class is instantiated.
NewGroupmo(cls, kwargs) ==
    /\ Len(graph) < MaxNodes
    /\ \E selected \in SelectedNodeChoices(graph) :
         /\ graph' = Groupmo_new(graph, cls, kwargs, selected)
         /\ last' = [op |-> "Groupmo", cls |-> cls, kwargs |-> kwargs,
                     selected |-> selected, node |-> Len(graph) + 1]
    /\ preGraph' = graph
    /\ UNCHANGED <<thoriumVars, viewerVars, snapVars>>

\* The user clicks node i with shift held: its selection is toggled.
ToggleSelected(i) ==
    /\ i \in 1..Len(graph)
    /\ graph' = [graph EXCEPT ![i].selected = ~@]
    /\ last' = [op |-> "select", node |-> i]
    /\ preGraph' = graph
    /\ UNCHANGED <<thoriumVars, viewerVars, snapVars>>

\* A script calls thorium's allNodes.
AllNodes(filter, recurseGroups) ==
    /\ last' = [op |-> "allNodes", filter |-> filter,
                recurseGroups |-> recurseGroups,
                result |-> utils_allNodes(graph, filter, recurseGroups)]
    /\ preGraph' = graph
    /\ UNCHANGED graph
    /\ UNCHANGED <<thoriumVars, viewerVars, snapVars>>

Filters == {Absent} \cup GroupmoClasses \cup {"Blur", "Group"}

\* Groupmos are built into the script while the user changes the selection.
NextGroupmo ==
    \/ \E cls \in GroupmoClasses, kwargs \in KwargsSet : NewGroupmo(cls, kwargs)
    \/ \E i \in 1..MaxNodes : ToggleSelected(i)

SpecGroupmo == InitGroupmo /\ [][NextGroupmo]_vars

\* Groupmos are built into the script and scripts look nodes up by class.
NextAllNodes ==
    \/ \E cls \in GroupmoClasses, kwargs \in KwargsSet : NewGroupmo(cls, kwargs)
    \/ \E filter \in Filters, recurseGroups \in BOOLEAN : AllNodes(filter, recurseGroups)

SpecAllNodes == InitGroupmo /\ [][NextAllNodes]_vars

\* The Groups of the root whose groupmo_class knob holds cls.
GroupmosOf(cls) == {<<i>> : i \in {j \in 1..Len(graph) : graph[j].groupmo_class = cls}}

\* C12: allNodes called with a Groupmo Class name as the filter, with or
\* without recurseGroups, returns the Groupmo instances created with that
\* Class: every Group whose groupmo_class knob holds the filter value.
C12_AllNodesFindsGroupmos ==
    (last.op = "allNodes" /\ last.filter \in GroupmoClasses)
        => Range(last.result) = GroupmosOf(last.filter)

\* C13: after a Groupmo is constructed the new Group is the only selected
\* node, whatever was selected before and whether or not it has inputs.
C13_OnlyGroupmoSelected ==
    last.op = "Groupmo" => SelectedSet(graph) = {last.node}

\* A Groupmo without inputs was constructed while two nodes were selected.
C13_Witness ==
    /\ last.op = "Groupmo"
    /\ Cardinality(SelectedSet(preGraph)) >= 2
    /\ maxInputs(graph[last.node]) = 0
    /\ SelectedSet(graph) = {last.node}

\* ------------------------------------------------------------------------
\* Part IV  thorium/animatedSnap3D/animatedSnap3D.py
\* ------------------------------------------------------------------------

\* Bounds: the longest frame range, and the CurveTool nodes a session may
\* leave in the script.
MaxFrames == 3
MaxCurveTools == 2

\* The knobs animated_snap can be asked to snap.
TransformKnobs == {"translate", "rotate", "scaling"}

\* Values of the `transforms` argument: None (the empty list here), or a list
\* of knob names.
TransformsArgs == {<< >>, <<"translate", "rotate">>, <<"scaling">>}

\* The nodes animated_snap is run on: one with the knobs of a 3D object and
\* one without them.
SnapNodes == {"Card", "Blur"}

\* node.knobs()
NodeKnobs(node) ==
    IF node = "Card"
    THEN {"translate", "rotate", "scaling", "xform_order", "rot_order"}
    ELSE {}

\* nuke.FrameRange(a, b, 1) for the ranges of the model; frames are
\* numbered from 1.
FrameRange(a, b) == [first |-> a, last |-> b, increment |-> 1]
Ranges == {FrameRange(1, l) : l \in 1..MaxFrames}

\* None, where a FrameRange is expected.
NoRange == [first |-> 0, last |-> 0, increment |-> 0]

\* The methods of a nuke.FrameRange object.
FrameRangeMethods ==
    {"first", "last", "increment", "frames", "getFrame", "isInRange",
     "minFrame", "maxFrame", "stepFrame", "setFirst", "setLast", "setIncrement"}

\* frange.frames(): the number of frames; and `for frame in frange`.
frames(frange) == ((frange.last - frange.first) \div frange.increment) + 1
FramesOf(frange) ==
    [i \in 1..frames(frange) |-> frange.first + (i - 1) * frange.increment]

\* What the user answers to nuke.getInput: nothing (cancel, or an empty
\* text), a text that is no frame range, or the text of the longest range.
NoAnswer == [kind |-> "empty", first |-> 0, last |-> 0]
BadAnswer == [kind |-> "text", first |-> 0, last |-> 0]
RangeAnswer(r) == [kind |-> "range", first |-> r.first, last |-> r.last]
Answers == {NoAnswer, BadAnswer, RangeAnswer(FrameRange(1, MaxFrames))}

\* One call into the host, as the scene records it: the frame it was made
\* for (0 before the frame loop) and whether it raised.
Call(name, frame, raised) == [call |-> name, frame |-> frame, raised |-> raised]

Log(sc, name, frame, raised) ==
    [sc EXCEPT !.calls = Append(@, Call(name, frame, raised))]

\* len(snap3d.getSelection()) with the tree evaluated at `frame` (0: as the
\* viewer shows it when animated_snap is called): the selection has
\* in.vertices points until a change of topology at frame in.dropAt empties
\* it.
SelectionAt(in, frame) ==
    IF in.dropAt # 0 /\ frame >= in.dropAt THEN 0 ELSE in.vertices

\* task.isCancelled() when the loop reaches `frame`
isCancelled(in, frame) == in.cancelAt # 0 /\ frame >= in.cancelAt

\* ---- nukescripts.snap3d ----

\* verifyNodeToSnap(node, knobs): ValueError when the node lacks a knob.
verifyNodeToSnap(node, knobs) == \E i \in 1..Len(knobs) : knobs[i] \notin NodeKnobs(node)

\* verifyVertexSelection(vertices, min_verts): ValueError when fewer than
\* min_verts points are selected.
verifyVertexSelection(count, minLen) == count < minLen

\* ---- private functions ----

\* A plausible slip: a cancelled dialog yields the default range.
get_frange_default(sc, in) ==
    LET asked == Log(sc, "getInput", 0, FALSE) IN
    IF in.dialog.kind = "empty"
    THEN [sc |-> asked, frange |-> FrameRange(1, MaxFrames)]
    ELSE IF in.dialog.kind = "text"
    THEN [sc |-> Log(asked, "message", 0, FALSE), frange |-> NoRange]
    ELSE [sc |-> asked, frange |-> FrameRange(in.dialog.first, in.dialog.last)]

\* _get_frange(): the dialog, then the text made into a nuke.FrameRange.
get_frange(sc, in) ==
    LET asked == Log(sc, "getInput", 0, FALSE) IN
    IF in.dialog.kind = "empty"
    THEN [sc |-> asked, frange |-> NoRange]
    ELSE IF in.dialog.kind = "text"
    THEN [sc |-> Log(asked, "message", 0, FALSE), frange |-> NoRange]
    ELSE [sc |-> asked, frange |-> FrameRange(in.dialog.first, in.dialog.last)]

\* _frange_percent(frame, frange): frange.framges() is looked up on the
\* FrameRange object, which raises AttributeError for a name that is none of
\* its methods.
frange_percent(frame, frange) ==
    IF "framges" \notin FrameRangeMethods
    THEN [raised |-> TRUE, percent |-> 0]
    ELSE [raised |-> FALSE,
          percent |-> ((frame - frange.first) * 100) \div frames(frange)]

\* ---- animated_snap ----

\* knobs = list(transforms) + ['xform_order'], and 'rot_order' with 'rotate'
snap_knobs(transforms) ==
    (transforms \o <<"xform_order">>)
        \o (IF InSeq("rotate", transforms) THEN <<"rot_order">> ELSE << >>)

min_verts(transforms) == IF InSeq("scaling", transforms) THEN 3 ELSE 1

\* The loop that sets the animated flag on the knobs.
RECURSIVE SetAnimatedLoop(_, _)
SetAnimatedLoop(sc, knobs) ==
    IF knobs = << >> THEN sc
    ELSE LET k == Head(knobs)
             cleared == IF sc.animated[k]
                        THEN Log([sc EXCEPT !.animated[k] = FALSE],
                                 "clearAnimated", 0, FALSE)
                        ELSE sc
         IN SetAnimatedLoop(Log([cleared EXCEPT !.animated[k] = TRUE],
                                "setAnimated", 0, FALSE),
                            Tail(knobs))

\* The frame loop over the frames not yet visited.  The result tells whether
\* an exception left the loop.
RECURSIVE FrameLoop(_, _, _, _, _)
FrameLoop(sc, in, transforms, frange, todo) ==
    IF todo = << >> THEN [sc |-> sc, err |-> ""]
    ELSE
      LET frame == Head(todo) IN
      IF isCancelled(in, frame)
      THEN [sc |-> Log(sc, "isCancelled", frame, FALSE), err |-> ""]
      ELSE
        LET progress == frange_percent(frame, frange) IN
        IF progress.raised
        THEN [sc |-> Log(Log(sc, "isCancelled", frame, FALSE),
                         "_frange_percent", frame, TRUE),
              err |-> "AttributeError"]
        ELSE
          LET executed ==
                  Log(Log(Log(Log(sc, "isCancelled", frame, FALSE),
                              "setProgress", frame, FALSE),
                          "execute", frame, FALSE),
                      "getSelection", frame, FALSE)
          IN IF verifyVertexSelection(SelectionAt(in, frame), min_verts(transforms))
             THEN [sc |-> Log(Log(executed, "verifyVertexSelection", frame, TRUE),
                              "message", frame, FALSE),
                   err |-> ""]
             ELSE FrameLoop(Log(Log(executed, "verifyVertexSelection", frame, FALSE),
                                "snap", frame, FALSE),
                            in, transforms, frange, Tail(todo))

\* animated_snap(transforms, node, vertices=None, frange) on scene sc, with
\* the answers of the host and of the user in `in`.
animated_snap(sc, in) ==
    LET transforms == IF in.transforms = << >> THEN <<"translate">> ELSE in.transforms
        knobs == snap_knobs(transforms)
        start == Log([sc EXCEPT !.calls = << >>], "getSelection", 0, FALSE)
    IN
    IF verifyNodeToSnap(in.node, knobs)
    THEN [sc |-> Log(Log(start, "verifyNodeToSnap", 0, TRUE), "message", 0, FALSE),
          err |-> ""]
    ELSE IF verifyVertexSelection(SelectionAt(in, 0), min_verts(transforms))
    THEN [sc |-> Log(Log(Log(start, "verifyNodeToSnap", 0, FALSE),
                         "verifyVertexSelection", 0, TRUE),
                     "message", 0, FALSE),
          err |-> ""]
    ELSE
      LET verified == Log(Log(start, "verifyNodeToSnap", 0, FALSE),
                          "verifyVertexSelection", 0, FALSE)
          asked == IF in.frange = NoRange THEN get_frange(verified, in)
                   ELSE [sc |-> verified, frange |-> in.frange]
      IN
      IF asked.frange = NoRange THEN [sc |-> asked.sc, err |-> ""]
      ELSE
        LET temp == Log([asked.sc EXCEPT !.curveTools = @ + 1], "CurveTool", 0, FALSE)
            animated == SetAnimatedLoop(temp, transforms)
            task == Log(animated, "ProgressTask", 0, FALSE)
            loop == FrameLoop(task, in, transforms, asked.frange, FramesOf(asked.frange))
        IN IF loop.err # "" THEN loop
           ELSE [sc |-> Log([loop.sc EXCEPT !.curveTools = @ - 1], "delete", 0, FALSE),
                 err |-> ""]

\* ---- the scene as a state machine ----

\* A scene in which no knob is animated and no CurveTool exists.
InitScene ==
    /\ scene = [animated |-> [k \in TransformKnobs |-> FALSE],
                curveTools |-> 0,
                calls |-> << >>]
    /\ preScene = << >>

InitSnap == InitThorium /\ NoViewers /\ NoGraph /\ InitScene

\* What a call of animated_snap meets: its arguments, the number of selected
\* points, the user's answer to the dialog, the frame at which the user
\* cancels the task and the frame at which the topology changes (0: never).
\* An answer that is never asked for (the node has no knobs to snap, or too
\* few points are selected for the transforms) and a frame the loop cannot
\* reach (past the end of the range, or past the frame at which the loop is
\* left for the other reason) are left at their first value.
SnapInputs ==
    LET all == [transforms : TransformsArgs,
                node : SnapNodes,
                vertices : {0, 1, 3},
                frange : {NoRange} \cup Ranges,
                dialog : Answers,
                cancelAt : 0..MaxFrames,
                dropAt : 0..MaxFrames]
        Until(in) == IF in.frange # NoRange THEN in.frange.last ELSE in.dialog.last
        Fails(in) ==
            LET t == IF in.transforms = << >> THEN <<"translate">> ELSE in.transforms
            IN \/ verifyNodeToSnap(in.node, snap_knobs(t))
               \/ verifyVertexSelection(in.vertices, min_verts(t))
    IN {in \in all :
           /\ in.frange # NoRange => in.dialog = NoAnswer
           /\ in.cancelAt <= Until(in)
           /\ in.dropAt <= Until(in)
           /\ in.cancelAt = 0 \/ in.dropAt = 0
           /\ in.node = "Blur" => in.vertices = 0
           /\ Fails(in) => in.frange = NoRange /\ in.dialog = NoAnswer}

\* The user runs animated_snap.
AnimatedSnap(in) ==
    /\ scene.curveTools < MaxCurveTools
    /\ \E r \in {animated_snap(scene, in)} :
         /\ scene' = r.sc
         /\ last' = [op |-> "animated_snap", in |-> in, err |-> r.err]
    /\ preScene' = [scene EXCEPT !.calls = << >>]
    /\ UNCHANGED <<thoriumVars, viewerVars, groupmoVars>>

\* The user sets or removes the animation of a knob by hand.
UserAnimates(k) ==
    /\ scene' = [scene EXCEPT !.animated[k] = ~@, !.calls = << >>]
    /\ last' = [op |-> "animate", knob |-> k]
    /\ preScene' = [scene EXCEPT !.calls = << >>]
    /\ UNCHANGED <<thoriumVars, viewerVars, groupmoVars>>

NextSnap ==
    \/ \E in \in SnapInputs : AnimatedSnap(in)
    \/ \E k \in TransformKnobs : UserAnimates(k)

SpecSnap == InitSnap /\ [][NextSnap]_vars

\* ---- what the claims speak of ----

\* The host calls of the last animated_snap.
Called(name) == \E i \in 1..Len(scene.calls) : scene.calls[i].call = name

\* A verification raised before the frame loop.
VerifyFailedEarly ==
    \E i \in 1..Len(scene.calls) :
        /\ scene.calls[i].call \in {"verifyNodeToSnap", "verifyVertexSelection"}
        /\ scene.calls[i].frame = 0
        /\ scene.calls[i].raised

\* The dialog was shown and was cancelled, or answered with no valid range.
DialogFailed == Called("getInput") /\ last.in.dialog.kind \in {"empty", "text"}

\* C14: when a verification fails before the frame loop, or the dialog is
\* cancelled or yields an invalid range, animated_snap returns having
\* changed nothing: no CurveTool is created, no animation is cleared or set,
\* no progress task is opened and no snap function is called; the failure is
\* reported in a message, except for a cancelled dialog.
C14_FailureChangesNothing ==
    (last.op = "animated_snap" /\ (VerifyFailedEarly \/ DialogFailed)) =>
        /\ last.err = ""
        /\ scene.animated = preScene.animated
        /\ scene.curveTools = preScene.curveTools
        /\ ~Called("CurveTool")
        /\ ~Called("clearAnimated")
        /\ ~Called("setAnimated")
        /\ ~Called("ProgressTask")
        /\ ~Called("snap")
        /\ (VerifyFailedEarly \/ last.in.dialog.kind = "text") <=> Called("message")

\* The dialog was cancelled in a scene with an animated knob that the call
\* was to snap and a CurveTool left in the script.
C14_Witness ==
    /\ last.op = "animated_snap"
    /\ DialogFailed
    /\ last.in.dialog.kind = "empty"
    /\ last.in.transforms = << >>
    /\ preScene.animated["translate"]
    /\ preScene.curveTools = 1
    /\ scene.animated = preScene.animated
    /\ scene.curveTools = 1

\* The frames of the range the last call worked on.
LoopFrames ==
    FramesOf(IF last.in.frange # NoRange THEN last.in.frange
             ELSE FrameRange(last.in.dialog.first, last.in.dialog.last))

\* The first position in LoopFrames at which the task is cancelled or the
\* selection fails verification; one past the end when there is none.
Stops(i) ==
    \/ isCancelled(last.in, LoopFrames[i])
    \/ SelectionAt(last.in, LoopFrames[i]) <
           (IF InSeq("scaling", last.in.transforms) THEN 3 ELSE 1)

FirstStop ==
    IF \E i \in 1..Len(LoopFrames) : Stops(i)
    THEN CHOOSE i \in 1..Len(LoopFrames) : Stops(i) /\ \A j \in 1..(i - 1) : ~Stops(j)
    ELSE Len(LoopFrames) + 1

\* The frames snapped by the last call, in the order of the calls.
IsSnap(c) == c.call = "snap"
SnapCalls == SelectSeq(scene.calls, IsSnap)

\* C15: in the frame loop the frames are processed in range order: each
\* frame up to the first one at which the task is cancelled or the selection
\* fails verification is snapped, after the CurveTool was executed at that
\* frame and the selection fetched after it passed; that frame and the later
\* ones are not snapped.
C15_FrameLoopSnapsInOrder ==
    (last.op = "animated_snap" /\ Called("ProgressTask")) =>
        /\ Len(SnapCalls) = FirstStop - 1
        /\ \A i \in 1..Len(SnapCalls) : SnapCalls[i].frame = LoopFrames[i]
        /\ \A i \in 1..Len(scene.calls) :
              scene.calls[i].call = "snap" =>
                  /\ i > 3
                  /\ scene.calls[i - 3] = Call("execute", scene.calls[i].frame, FALSE)
                  /\ scene.calls[i - 2] = Call("getSelection", scene.calls[i].frame, FALSE)
                  /\ scene.calls[i - 1] =
                         Call("verifyVertexSelection", scene.calls[i].frame, FALSE)

====
